---- MODULE Spec2Model ----
(***************************************************************************)
(* Model of two numerical cores of MRPT:                                   *)
(*   - the ICP goodness-based edge registration decider                    *)
(*     (apps/graphslam-engine/CICPGoodnessERD_impl.h), and                 *)
(*   - the occupancy-grid ray simulator                                    *)
(*     (libs/maps/src/maps/COccupancyGridMap2D_simulate.cpp).              *)
(***************************************************************************)
EXTENDS Integers, Sequences, FiniteSets, TLC

(***************************************************************************)
(* Bounds of the model and program constants.                              *)
(***************************************************************************)

\* Largest number of nodes the driver puts in the pose graph.
MaxNodes == 4

\* Largest number of observations of an unrecognised class a dataset holds
\* before its first range scan.
MaxLeadingOther == 1

\* m_last_total_num_of_nodes as set by initCICPGoodnessERD_t.
LastTotalInit == 2

\* m_consecutive_invalid_format_instances_thres as set by the constructor.
InvalidFormatThres == 20

\* Default of ICP_goodness_thresh (0.75), in percent.
GoodnessThreshDefault == 75

\* Largest side, in cells, of the occupancy grids.
MaxGridSize == 2

\* Largest max_ray_len, in cells, given to the ray march.
MaxRayLen == 3

\* Largest ray count N given to the laser simulator.
MaxRays == 4

\* Largest decimation given to the laser simulator.
MaxDecimation == 2

\* Largest number of transducers in a sonar observation.
MaxSensors == 2

\* The grid's resolution: length units per cell edge.
Resolution == 10

\* Angle units per degree (DEG2RAD(1.0) is DegUnits angle units).
DegUnits == 100

(***************************************************************************)
(* Input sets of the decider.                                              *)
(***************************************************************************)

\* Pose (x, y) of the nodes of the initial graph skeleton.
Origin == << 0, 0 >>

\* Node poses the driver may give to a new node; distances between them are
\* 0 and 2.
Positions == { Origin, << 2, 0 >> }

\* Values of the option ICP_max_distance: zero ("consider all nodes", the
\* branch every value <= 0 takes), a radius that leaves the far position out
\* and a radius that reaches it exactly.
ICPMaxDistances == { 0, 1, 2 }

\* Values of the option LC_min_nodeid_diff.
LCDiffs == { 0, 1 }

\* Goodness values the ICP solver may report, in percent: below, equal to
\* and above the threshold.
GoodnessVals == { 70, GoodnessThreshDefault, 90 }

\* Identities of the scan objects handed to update; NoScan is the null pointer.
ScanIds == { "s1" }
NoScan == "null"

\* Runtime kinds of the step given to update: a single observation (2D range
\* scan, 3D range scan, any other class) or a sensory frame (holding a 2D
\* range scan or none).
ObsKinds == { "Obs2D", "Obs3D", "ObsOther", "Frame2D", "FrameEmpty" }

\* The two rawlog formats: observation-only, and action-observations
\* (sensory frames).  A dataset is in one of them.
RawlogFormats == { "observation-only", "action-observations" }

KindsOf(format) ==
    IF format = "observation-only"
    THEN { "Obs2D", "Obs3D", "ObsOther" }
    ELSE { "Frame2D", "FrameEmpty" }

EdgeLabels == { "ICP2D", "ICP3D", "LC" }

VARIABLES
    \* the dataset the driver reads
    rawlogFormat,
    \* the pose graph (external collaborator)
    nodeCount,                              \* m_graph->nodeCount()
    nodes,                                  \* m_graph->nodes : id -> pose
    \* the decider
    params,                                 \* ICP_max_distance, ICP_goodness_thresh, LC_min_nodeid_diff
    m_last_total_num_of_nodes,
    m_last_laser_scan2D,
    m_last_laser_scan3D,
    m_is_using_3DScan,
    m_nodes_to_laser_scans2D,
    m_nodes_to_laser_scans3D,
    m_edge_types_to_nums,
    m_just_inserted_loop_closure,
    m_checked_for_usuable_dataset,
    m_consecutive_invalid_format_instances,
    \* number of times the "Can't find usuable data" diagnostic was written
    diagnosticsLogged,
    \* the display window and the window manager the decider is bound to
    m_win,
    m_win_manager,
    m_initialized_visuals,
    m_initialized_rgbd_viewports,
    \* the 3D scene of the display window: its lock, objects and viewports
    scene,
    \* what the most recent call of initializeVisuals / updateVisuals did
    lastVisuals,
    \* what the most recent call of updateDeciderState did (its trace)
    lastUpdate,
    \* the occupancy grid map: size_x, size_y, map
    grid,
    \* randomGenerator, the process-wide Gaussian source: seed, pos
    rng,
    \* the most recent call of simulateScanRay: its arguments and results
    ray,
    \* the CObservation2DRangeScan given to laserScanSimulator
    inout_Scan,
    \* the most recent call of laserScanSimulator: its arguments and its rays
    laser,
    \* the CObservationRange given to sonarSimulator
    inout_observation,
    \* the most recent call of sonarSimulator: its arguments and its rays
    sonar

erdVars == << rawlogFormat, nodeCount, nodes, params, m_last_total_num_of_nodes,
              m_last_laser_scan2D, m_last_laser_scan3D, m_is_using_3DScan,
              m_nodes_to_laser_scans2D, m_nodes_to_laser_scans3D,
              m_edge_types_to_nums, m_just_inserted_loop_closure,
              m_checked_for_usuable_dataset,
              m_consecutive_invalid_format_instances, diagnosticsLogged,
              m_win, m_win_manager, m_initialized_visuals,
              m_initialized_rgbd_viewports, scene, lastVisuals,
              lastUpdate >>

visVars == << m_win, m_win_manager, m_initialized_visuals,
              m_initialized_rgbd_viewports, scene, lastVisuals >>

simVars == << grid, rng, ray, inout_Scan, laser, inout_observation, sonar >>

vars == << erdVars, simVars >>

(***************************************************************************)
(* Helpers.                                                                *)
(***************************************************************************)

Abs(x) == IF x < 0 THEN -x ELSE x

SetMin(S) == CHOOSE m \in S : \A k \in S : m <= k

\* std::map operator[] assignment: bind key k to value v, overwriting.
MapPut(m, k, v) == [ i \in (DOMAIN m) \cup {k} |-> IF i = k THEN v ELSE m[i] ]

EmptyMap == [ i \in {} |-> NoScan ]

(***************************************************************************)
(* Pose graph collaborator.                                                *)
(***************************************************************************)

\* Squared Euclidean translational distance of two poses.
DistSq(a, b) == (a[1] - b[1]) * (a[1] - b[1]) + (a[2] - b[2]) * (a[2] - b[2])

\* nodes[i].distanceTo(nodes[j]) <= distance, for distance > 0.
WithinDistance(a, b, distance) == DistSq(a, b) <= distance * distance

\* m_graph->getAllNodes: enumeration of all node ids of the graph.
getAllNodes == 0 .. (nodeCount - 1)

(***************************************************************************)
(* The decider.                                                            *)
(***************************************************************************)

\* getNearbyNodesOf(nodes_set, cur_nodeID, distance)
getNearbyNodesOf(cur_nodeID, distance) ==
    IF distance > 0
    THEN { nodeID \in 0 .. (nodeCount - 2) :
             WithinDistance(nodes[nodeID], nodes[cur_nodeID], distance) }
    ELSE getAllNodes

\* registerNewEdge(from, to, rel_edge): m_graph->insertEdge(from, to, rel_edge)
registerNewEdge(st, from, to) ==
    [ st EXCEPT !.edges = Append(@, << from, to >>) ]

\* m_edge_types_to_nums[label]++ while registering the edge (from, to)
IncEdgeType(st, label, from, to) ==
    [ st EXCEPT !.nums[label] = @ + 1,
                !.incs = Append(@, [ label |-> label, from |-> from, to |-> to ]) ]

\* A slip: an id gap equal to the minimum taken for a loop closure.
IsLoopClosureInclusive(n, c) == Abs(n - c) >= params.LC_min_nodeid_diff

\* The criterion "in case of loop closure".
IsLoopClosure(n, c) == Abs(n - c) > params.LC_min_nodeid_diff

\* A slip: a goodness equal to the threshold accepted.
GoodEnoughInclusive(goodness) == goodness >= params.ICP_goodness_thresh

\* The criterion for registering a new edge.
GoodEnough(goodness) == goodness > params.ICP_goodness_thresh

\* A slip: "LC" counted for every candidate ICP ran on, whatever its goodness.
CheckCandidateCountsLCFirst(st, reg, c, n, g, label) ==
    IF c \notin DOMAIN reg
    THEN st
    ELSE LET s0 == [ st EXCEPT !.calls = Append(@, c) ]
             s1 == IF IsLoopClosure(n, c)
                   THEN [ IncEdgeType(s0, "LC", c, n) EXCEPT !.lc = TRUE ]
                   ELSE s0
         IN  IF GoodEnough(g[c])
             THEN IncEdgeType(registerNewEdge(s1, c, n), label, c, n)
             ELSE s1

\* A slip: the lookup of the candidate's scan left out.
CheckCandidateNoLookup(st, reg, c, n, g, label) ==
    LET s1 == [ st EXCEPT !.calls = Append(@, c) ]
    IN  IF (c \notin DOMAIN g) \/ GoodEnough(g[c])
        THEN IncEdgeType(registerNewEdge(s1, c, n), label, c, n)
        ELSE s1

\* Body of the loop of checkRegistrationCondition2D/3D for candidate c,
\* new node n, registry reg, ICP outcomes g and counter label.
CheckCandidate(st, reg, c, n, g, label) ==
    IF c \notin DOMAIN reg
    THEN st
    ELSE LET s1 == [ st EXCEPT !.calls = Append(@, c) ]
         IN  IF GoodEnough(g[c])
             THEN LET s2 == registerNewEdge(s1, c, n)
                      s3 == IncEdgeType(s2, label, c, n)
                  IN  IF IsLoopClosure(n, c)
                      THEN [ IncEdgeType(s3, "LC", c, n) EXCEPT !.lc = TRUE ]
                      ELSE s3
             ELSE s1

\* A slip: the candidate set walked from its largest id down.
RECURSIVE CheckRegistrationLoopDescending(_, _, _, _, _, _)
CheckRegistrationLoopDescending(st, reg, todo, n, g, label) ==
    IF todo = {}
    THEN st
    ELSE LET c == CHOOSE m \in todo : \A k \in todo : k <= m
         IN  CheckRegistrationLoopDescending(
                 CheckCandidate(st, reg, c, n, g, label),
                 reg, todo \ {c}, n, g, label)

\* The loop over the candidate set, in ascending order (std::set iteration).
RECURSIVE CheckRegistrationLoop(_, _, _, _, _, _)
CheckRegistrationLoop(st, reg, todo, n, g, label) ==
    IF todo = {}
    THEN st
    ELSE LET c == SetMin(todo)
         IN  CheckRegistrationLoop(CheckCandidate(st, reg, c, n, g, label),
                                   reg, todo \ {c}, n, g, label)

\* A slip: the loop entered without the scan of the new node, every
\* alignment against it then taken for good.
checkRegistrationCondition2DWithoutCurrentScan(st, reg, nodes_set, n, g) ==
    CheckRegistrationLoop(st, reg, nodes_set, n,
        [ c \in nodes_set |-> IF c \in DOMAIN g THEN g[c] ELSE 100 ], "ICP2D")

\* checkRegistrationCondition2D(nodes_set)
checkRegistrationCondition2D(st, reg, nodes_set, n, g) ==
    IF n \in DOMAIN reg
    THEN CheckRegistrationLoop(st, reg, nodes_set, n, g, "ICP2D")
    ELSE st

\* checkRegistrationCondition3D(nodes_set)
checkRegistrationCondition3D(st, reg, nodes_set, n, g) ==
    IF n \in DOMAIN reg
    THEN CheckRegistrationLoop(st, reg, nodes_set, n, g, "ICP3D")
    ELSE st

\* The candidates on which getICPEdge is called.
ICPCalled(reg, nodes_set, n) ==
    IF n \in DOMAIN reg THEN nodes_set \cap DOMAIN reg ELSE {}

\* A slip: the scan bound to the node before the newest.
NewNodeKeyPrevious == nodeCount - 2

\* A slip: the node count taken for the id of the newest node.
NewNodeKeyOffByOne == nodeCount

\* The key under which the scan of a new node is bound.
NewNodeKey == nodeCount - 1

\* A slip: the diagnostic written as soon as the count reaches the threshold.
checkIfInvalidDatasetAtThreshold(kind) ==
    IF kind \in { "Obs2D", "Obs3D", "ObsOther" }
    THEN IF kind \in { "Obs2D", "Obs3D" }
         THEN [ checked |-> TRUE, count |-> m_consecutive_invalid_format_instances,
                logged |-> FALSE ]
         ELSE LET cnt == m_consecutive_invalid_format_instances + 1
              IN  [ checked |-> cnt >= InvalidFormatThres, count |-> cnt,
                    logged |-> cnt >= InvalidFormatThres ]
    ELSE [ checked |-> TRUE, count |-> m_consecutive_invalid_format_instances,
           logged |-> FALSE ]

\* checkIfInvalidDataset(action, observations, observation): the new values
\* of the flag and of the count, and whether the diagnostic is written.
checkIfInvalidDataset(kind) ==
    IF kind \in { "Obs2D", "Obs3D", "ObsOther" }
    THEN IF kind \in { "Obs2D", "Obs3D" }
         THEN [ checked |-> TRUE, count |-> m_consecutive_invalid_format_instances,
                logged |-> FALSE ]
         ELSE LET cnt == m_consecutive_invalid_format_instances + 1
              IN  [ checked |-> cnt > InvalidFormatThres, count |-> cnt,
                    logged |-> cnt > InvalidFormatThres ]
    ELSE [ checked |-> TRUE, count |-> m_consecutive_invalid_format_instances,
           logged |-> FALSE ]

\* The state the registration loop starts from.
LoopStart ==
    [ edges |-> << >>, nums |-> m_edge_types_to_nums, lc |-> FALSE,
      calls |-> << >>, incs |-> << >> ]

\* The state an update without new node leaves.
NoLoop ==
    [ edges |-> << >>, nums |-> m_edge_types_to_nums,
      lc |-> m_just_inserted_loop_closure, calls |-> << >>, incs |-> << >> ]

\* The null display window / window manager pointer, and the one window and
\* manager of the driver.
NoWindow == "NULL"
Windows == { "win" }
Managers == { "mgr" }

NoVisuals == [ op |-> "none", outcome |-> "none", events |-> << >> ]

\* initCICPGoodnessERD_t: the visuals part of the decider after construction,
\* and the empty scene of the driver's window.
VisualsAfterConstruction ==
    /\ m_win = NoWindow
    /\ m_win_manager = NoWindow
    /\ m_initialized_visuals = FALSE
    /\ m_initialized_rgbd_viewports = FALSE
    /\ scene = [ locked |-> FALSE, objects |-> {}, viewports |-> {} ]
    /\ lastVisuals = NoVisuals

\* A slip: a new node detected whenever the two counts differ.
RegisteredNewNodeOnChange == m_last_total_num_of_nodes # nodeCount

\* A slip: a new node detected also when the two counts are equal.
RegisteredNewNodeOrEqual == m_last_total_num_of_nodes <= nodeCount

\* The check of a possible prior node registration.
RegisteredNewNode == m_last_total_num_of_nodes < nodeCount

\* updateDeciderState(action, observations, observation)
updateDeciderState(kind, scan) ==
    LET registered_new_node == RegisteredNewNode
        present == kind \in { "Obs2D", "Obs3D", "ObsOther" }
        scan2D  == CASE kind = "Obs2D"      -> scan
                     [] kind = "Frame2D"    -> scan
                     [] kind = "FrameEmpty" -> NoScan
                     [] OTHER               -> m_last_laser_scan2D
        scan3D  == IF kind = "Obs3D" THEN scan ELSE m_last_laser_scan3D
        is3D    == CASE kind = "Obs2D" -> FALSE
                     [] kind = "Obs3D" -> TRUE
                     [] OTHER          -> m_is_using_3DScan
        reg2D   == IF registered_new_node /\ scan2D # NoScan
                   THEN MapPut(m_nodes_to_laser_scans2D, NewNodeKey, scan2D)
                   ELSE m_nodes_to_laser_scans2D
        reg3D   == IF registered_new_node /\ present /\ scan3D # NoScan
                   THEN MapPut(m_nodes_to_laser_scans3D, NewNodeKey, scan3D)
                   ELSE m_nodes_to_laser_scans3D
        n       == nodeCount - 1
        nodes_to_check_ICP ==
                   IF registered_new_node
                   THEN getNearbyNodesOf(n, params.ICP_max_distance)
                   ELSE {}
        reg     == IF is3D THEN reg3D ELSE reg2D
        called  == IF registered_new_node
                   THEN ICPCalled(reg, nodes_to_check_ICP, n)
                   ELSE {}
        chk     == IF m_checked_for_usuable_dataset
                   THEN [ checked |-> TRUE,
                          count |-> m_consecutive_invalid_format_instances,
                          logged |-> FALSE ]
                   ELSE checkIfInvalidDataset(kind)
    IN  \E g \in [ called -> GoodnessVals ] :
          LET st == IF registered_new_node
                    THEN IF is3D
                         THEN checkRegistrationCondition3D(LoopStart, reg3D,
                                  nodes_to_check_ICP, n, g)
                         ELSE checkRegistrationCondition2D(LoopStart, reg2D,
                                  nodes_to_check_ICP, n, g)
                    ELSE NoLoop
          IN  /\ m_last_total_num_of_nodes' =
                   IF registered_new_node THEN nodeCount
                   ELSE m_last_total_num_of_nodes
              /\ m_last_laser_scan2D' = scan2D
              /\ m_last_laser_scan3D' = scan3D
              /\ m_is_using_3DScan' = is3D
              /\ m_nodes_to_laser_scans2D' = reg2D
              /\ m_nodes_to_laser_scans3D' = reg3D
              /\ m_edge_types_to_nums' = st.nums
              /\ m_just_inserted_loop_closure' = st.lc
              /\ m_checked_for_usuable_dataset' = chk.checked
              /\ m_consecutive_invalid_format_instances' = chk.count
              /\ diagnosticsLogged' =
                   IF chk.logged THEN diagnosticsLogged + 1 ELSE diagnosticsLogged
              /\ lastUpdate' =
                   [ called |-> TRUE,
                     registered_new_node |-> registered_new_node,
                     n |-> n,
                     nodes_to_check_ICP |-> nodes_to_check_ICP,
                     calls |-> st.calls,
                     edges |-> st.edges,
                     incs |-> st.incs,
                     goodness |-> g,
                     kind |-> kind,
                     fresh |-> ~lastUpdate.called ]
              /\ UNCHANGED << rawlogFormat, nodeCount, nodes, params >>
              /\ UNCHANGED visVars
              /\ UNCHANGED simVars

\* One step of the driver: it reads the next entry of the rawlog and calls
\* updateDeciderState on it.  Observations of another class are drawn while
\* the dataset check is armed, at most MaxLeadingOther of them: once a scan
\* has disarmed the check, such an observation leaves the last scans and the
\* mode alone and so takes the very step a repeat of the last scan takes.
UpdateWith(scans) ==
    \E kind \in KindsOf(rawlogFormat), scan \in scans :
        /\ kind = "ObsOther" =>
              /\ ~m_checked_for_usuable_dataset
              /\ m_consecutive_invalid_format_instances < MaxLeadingOther
        /\ updateDeciderState(kind, scan)

\* The step of the driver on a dataset whose scans are one object.
Update == UpdateWith(ScanIds)

\* The step of the driver on a dataset whose scans are distinct objects.
DistinctScanIds == { "s1", "s2" }

UpdateDistinctScans == UpdateWith(DistinctScanIds)

\* The driver (node registration) appends a node to the pose graph.
AddNode ==
    /\ nodeCount < MaxNodes
    /\ \E p \in Positions :
         nodes' = [ i \in 0 .. nodeCount |-> IF i < nodeCount THEN nodes[i] ELSE p ]
    /\ nodeCount' = nodeCount + 1
    /\ UNCHANGED << rawlogFormat, params, m_last_total_num_of_nodes, m_last_laser_scan2D,
                    m_last_laser_scan3D, m_is_using_3DScan,
                    m_nodes_to_laser_scans2D, m_nodes_to_laser_scans3D,
                    m_edge_types_to_nums, m_just_inserted_loop_closure,
                    m_checked_for_usuable_dataset,
                    m_consecutive_invalid_format_instances, diagnosticsLogged,
                    lastUpdate >>
    /\ UNCHANGED visVars
    /\ UNCHANGED simVars

\* initCICPGoodnessERD_t, setGraphPtr and loadConfig: the decider after
\* construction, bound to the two-node graph skeleton and with its options
\* loaded.
InitERD ==
    /\ rawlogFormat \in RawlogFormats
    /\ nodeCount = LastTotalInit
    /\ nodes = [ i \in 0 .. (nodeCount - 1) |-> Origin ]
    /\ params \in [ ICP_max_distance : ICPMaxDistances,
                    ICP_goodness_thresh : { GoodnessThreshDefault },
                    LC_min_nodeid_diff : LCDiffs,
                    visualize_laser_scans : { TRUE },
                    enable_intensity_viewport : { TRUE },
                    enable_range_viewport : { TRUE },
                    has_read_config : { TRUE } ]
    /\ m_last_total_num_of_nodes = LastTotalInit
    /\ m_last_laser_scan2D = NoScan
    /\ m_last_laser_scan3D = NoScan
    /\ m_is_using_3DScan = FALSE
    /\ m_nodes_to_laser_scans2D = EmptyMap
    /\ m_nodes_to_laser_scans3D = EmptyMap
    /\ m_edge_types_to_nums = [ l \in EdgeLabels |-> 0 ]
    /\ m_just_inserted_loop_closure = FALSE
    /\ m_checked_for_usuable_dataset = FALSE
    /\ m_consecutive_invalid_format_instances = 0
    /\ diagnosticsLogged = 0
    /\ VisualsAfterConstruction
    /\ lastUpdate = [ called |-> FALSE, registered_new_node |-> FALSE, n |-> -1,
                      nodes_to_check_ICP |-> {}, calls |-> << >>,
                      edges |-> << >>, incs |-> << >>, goodness |-> << >>,
                      kind |-> "none", fresh |-> FALSE ]

(***************************************************************************)
(* The occupancy grid and its primitives.                                  *)
(***************************************************************************)

\* Log-odds cell values: an occupied cell, an unknown cell (|l| <= 1) and a
\* free cell.
CellValues == { -8, 0, 8 }

\* Occupancy thresholds given to the simulators, in tenths.
Thresholds == { 5, 6 }

\* p2l: probability (in tenths) to log-odds, l = 10 ln(p / (1 - p)) rounded.
p2l(p) ==
    CASE p = 1 -> -22 [] p = 2 -> -14 [] p = 3 -> -8 [] p = 4 -> -4
      [] p = 5 -> 0   [] p = 6 -> 4   [] p = 7 -> 8  [] p = 8 -> 14
      [] p = 9 -> 22

\* x2idx / y2idx: world coordinate to cell index (x_min = y_min = 0); a
\* coordinate left of the grid gives a negative index.
x2idx(x) == x \div Resolution
y2idx(y) == y \div Resolution

\* Centre of cell c, in length units.
CellCentre(c) == c * Resolution + (Resolution \div 2)

\* The grids: strips (size_y = 1) and squares up to MaxGridSize, uniform or
\* with one cell that differs from the others.
GridShapes ==
    { sh \in (1 .. MaxGridSize) \X (1 .. MaxGridSize) : sh[2] \in { 1, sh[1] } }

GridsOfShape(sx, sy) ==
    { [ size_x |-> sx, size_y |-> sy,
        map |-> [ i \in 0 .. (sx * sy - 1) |-> IF i = k THEN v ELSE bg ] ] :
      bg \in CellValues, v \in CellValues, k \in 0 .. (sx * sy - 1) }

Grids == UNION { GridsOfShape(sh[1], sh[2]) : sh \in GridShapes }

NoGrid == [ size_x |-> 0, size_y |-> 0, map |-> << >> ]

\* The index of cell (x, y) in the map array.
CellIndex(g, x, y) == x + y * g.size_x

(***************************************************************************)
(* Trigonometry in fixed point: angles in DegUnits per degree, results      *)
(* scaled by Resolution and rounded (Bhaskara's approximation of the sine). *)
(***************************************************************************)

HalfTurn == 180 * DegUnits

\* Resolution * sin(x) for 0 <= x <= HalfTurn.
SinHalf(x) ==
    LET q   == (x * (HalfTurn - x)) \div (DegUnits * DegUnits)
        num == 4 * q * Resolution
        den == 40500 - q
    IN  (2 * num + den) \div (2 * den)

\* sin(A_) * resolution
SinR(a) ==
    LET m == a % (2 * HalfTurn)
    IN  IF m < HalfTurn THEN SinHalf(m) ELSE 0 - SinHalf(m - HalfTurn)

\* cos(A_) * resolution
CosR(a) == SinR(a + (HalfTurn \div 2))

(***************************************************************************)
(* randomGenerator: a deterministic stream of normalized Gaussian draws,    *)
(* fixed by its seed; each draw advances the stream.                        *)
(***************************************************************************)

Seeds == { 0, 1 }

\* drawGaussian1D_normalized(): the draw the generator gives next.
GaussDraw(r) == IF (r.seed + r.pos) % 2 = 0 THEN 1 ELSE -1

\* The generator after a draw.
Advance(r) == [ r EXCEPT !.pos = (@ + 1) % 2 ]

(***************************************************************************)
(* simulateScanRay.                                                        *)
(***************************************************************************)

Min(a, b) == IF a < b THEN a ELSE b

\* In-bounds test of the while condition.
InGrid(g, x, y) == x >= 0 /\ y >= 0 /\ x < g.size_x /\ y < g.size_y

\* The cell is free enough for the ray to go on.
FreeEnough(cell, threshold_free_int) == cell > threshold_free_int

\* A variant that takes every cell up to the free value for unknown.
IsUnknownUpToFree(cell) == Abs(cell) <= 8

\* The cell is unknown.
IsUnknown(cell) == Abs(cell) <= 1

\* A variant that lets the march take one step more.
WithinRangeInclusive(ray_len, max_ray_len) == ray_len <= max_ray_len

\* The ray has not reached its maximum length.
WithinRange(ray_len, max_ray_len) == ray_len < max_ray_len

\* The ray tracing loop: s holds rx, ry, ray_len, x, y, hitCellOcc_int,
\* firstUnknownCellDist and the map indices read so far.
RECURSIVE RayMarch(_, _, _, _, _, _)
RayMarch(g, Arx, Ary, max_ray_len, threshold_free_int, s) ==
    LET x    == x2idx(s.rx)
        y    == IF x >= 0 THEN y2idx(s.ry) ELSE s.y
        inb  == InGrid(g, x, y)
        hit  == IF inb THEN g.map[CellIndex(g, x, y)] ELSE s.hitCellOcc_int
        goOn == /\ inb
                /\ FreeEnough(hit, threshold_free_int)
                /\ WithinRange(s.ray_len, max_ray_len)
        s1   == [ s EXCEPT !.x = x, !.y = y, !.hitCellOcc_int = hit,
                           !.reads = IF inb THEN Append(@, << x, y >>) ELSE @ ]
    IN  IF ~goOn
        THEN s1
        ELSE RayMarch(g, Arx, Ary, max_ray_len, threshold_free_int,
                 [ s1 EXCEPT !.firstUnknownCellDist =
                                 IF IsUnknown(hit) THEN Min(@, s.ray_len) ELSE @,
                             !.rx = @ + Arx,
                             !.ry = @ + Ary,
                             !.ray_len = @ + 1 ])

\* A variant that tests the column only.
OutOfGridColumnOnly(g, x, y) == x < 0 \/ x >= g.size_x

\* "Check out of the grid": static_cast<unsigned>(x) >= size_x or
\* static_cast<unsigned>(y) >= size_y; a negative index casts to a value
\* above every size.
OutOfGrid(g, x, y) == x < 0 \/ x >= g.size_x \/ y < 0 \/ y >= g.size_y

\* A variant that accepts a hit at the range limit.
ValidHitInclusive(ray_len, max_ray_len) == ray_len <= max_ray_len

\* out_valid of the normal case.
ValidHit(ray_len, max_ray_len) == ray_len < max_ray_len

\* The largest value of an unsigned int.  The integers of the model checker
\* end at 2^31 - 1, which stands here for UINT_MAX: all that the ray march
\* does with it is compare it with ray_len and add one to it.
UIntMax == 2147483647

\* n + 1 in unsigned int arithmetic: the largest value wraps to 0.
UIntSucc(n) == IF n = UIntMax THEN 0 ELSE n + 1

\* simulateScanRay(start_x, start_y, angle_direction, out_range, out_valid,
\*                 max_ray_len, threshold_free, noiseStd, angleNoiseStd)
\* on grid g with the generator in state r; threshold_free is in tenths.
simulateScanRay(g, r, start_x, start_y, angle_direction, max_ray_len, threshold_free, noiseStd, angleNoiseStd) ==
    LET A_  == angle_direction
                 + (IF angleNoiseStd > 0 THEN GaussDraw(r) * angleNoiseStd ELSE 0)
        r1  == IF angleNoiseStd > 0 THEN Advance(r) ELSE r
        Arx == CosR(A_)
        Ary == SinR(A_)
        threshold_free_int == p2l(threshold_free)
        s   == RayMarch(g, Arx, Ary, max_ray_len, threshold_free_int,
                   [ rx |-> start_x, ry |-> start_y, ray_len |-> 0,
                     x |-> 0, y |-> y2idx(start_y), hitCellOcc_int |-> 0,
                     firstUnknownCellDist |-> UIntSucc(max_ray_len),
                     reads |-> << >> ])
        outOfGrid == OutOfGrid(g, s.x, s.y)
    IN  IF IsUnknown(s.hitCellOcc_int) \/ outOfGrid
        THEN [ out_valid |-> FALSE,
               out_range |-> IF s.firstUnknownCellDist < s.ray_len
                             THEN s.firstUnknownCellDist * Resolution
                             ELSE s.ray_len * Resolution,
               noise |-> 0, rng |-> r1, march |-> s, A_ |-> A_ ]
        ELSE LET valid == ValidHit(s.ray_len, max_ray_len)
                 noisy == noiseStd > 0 /\ valid
                 noise == IF noisy THEN noiseStd * GaussDraw(r1) ELSE 0
             IN  [ out_valid |-> valid,
                   out_range |-> s.ray_len * Resolution + noise,
                   noise |-> noise,
                   rng |-> IF noisy THEN Advance(r1) ELSE r1,
                   march |-> s, A_ |-> A_ ]

(***************************************************************************)
(* Input sets of the simulators.                                           *)
(***************************************************************************)

\* Ray directions: the eight compass directions.
RayAngles == { k * (HalfTurn \div 4) : k \in 0 .. 7 }

\* Standard deviations of the range noise (length units) and of the angular
\* noise (angle units): none, or some.
RangeNoiseStds == { 0, 3 }
AngleNoiseStds == { 0, HalfTurn \div 4 }

\* Start cells of a ray on grid g: every cell of the grid, and one cell left
\* of the grid.
StartCells(g) ==
    ((0 .. (g.size_x - 1)) \X (0 .. (g.size_y - 1))) \cup { << -1, 0 >> }

NoRay == [ called |-> FALSE ]

\* One call of simulateScanRay on the grid, from the centre of a start cell,
\* with max_ray_len drawn from lens.
SimulateScanRayWith(lens) ==
    /\ ~ray.called
    /\ \E c \in StartCells(grid), a \in RayAngles, len \in lens,
          t \in Thresholds, ns \in RangeNoiseStds, as \in AngleNoiseStds :
          LET res == simulateScanRay(grid, rng, CellCentre(c[1]), CellCentre(c[2]),
                                     a, len, 10 - t, ns, as)
          IN  /\ ray' = [ called |-> TRUE,
                          start_x |-> CellCentre(c[1]), start_y |-> CellCentre(c[2]),
                          angle_direction |-> a, max_ray_len |-> len,
                          threshold_free |-> 10 - t,
                          noiseStd |-> ns, angleNoiseStd |-> as,
                          out_range |-> res.out_range, out_valid |-> res.out_valid,
                          noise |-> res.noise, march |-> res.march ]
              /\ rng' = res.rng
    /\ UNCHANGED << grid, inout_Scan, laser, inout_observation, sonar >>
    /\ UNCHANGED erdVars

\* One call of simulateScanRay with a max_ray_len of a few cells.
SimulateScanRay == SimulateScanRayWith(0 .. MaxRayLen)

\* One call of simulateScanRay with any max_ray_len: a few cells, or the
\* largest unsigned int.
SimulateScanRayAnyLength == SimulateScanRayWith((0 .. MaxRayLen) \cup { UIntMax })

(***************************************************************************)
(* Poses and the inputs shared by the laser and the sonar simulators.      *)
(***************************************************************************)

\* a (+) b: the pose b, given relative to a, in the frame of a.
ComposePose(a, b) ==
    [ x   |-> a.x + ((b.x * CosR(a.phi) - b.y * SinR(a.phi)) \div Resolution),
      y   |-> a.y + ((b.x * SinR(a.phi) + b.y * CosR(a.phi)) \div Resolution),
      phi |-> a.phi + b.phi ]

\* round(a / b) for a >= 0, b > 0.
RoundDiv(a, b) == (2 * a + b) \div (2 * b)

\* Robot poses: the centre of cell (0, 0), heading along x or along y.
RobotPoses ==
    { [ x |-> CellCentre(0), y |-> CellCentre(0), phi |-> p ] :
      p \in { 0, HalfTurn \div 2 } }

\* Sensor poses relative to the robot: on the robot, or one cell ahead and
\* turned by 45 degrees.
SensorPoses ==
    { [ x |-> 0, y |-> 0, phi |-> 0 ],
      [ x |-> Resolution, y |-> 0, phi |-> HalfTurn \div 4 ] }

\* The value of a free cell.
FreeCell == p2l(7)

\* Grids of the largest square shape whose cells are free but at most one.
OpenGrids ==
    { g \in GridsOfShape(MaxGridSize, MaxGridSize) :
        Cardinality({ i \in DOMAIN g.map : g.map[i] # FreeCell }) <= 1 }

\* maxRange / maxSensorDistance of the observations, in length units.
MaxRanges == { MaxRayLen * Resolution }

(***************************************************************************)
(* laserScanSimulator.                                                     *)
(***************************************************************************)

\* std::vector::resize(N): keeps the first elements, value-initialises the
\* new ones.
Resize(v, N) == [ i \in 0 .. (N - 1) |-> IF i \in DOMAIN v THEN v[i] ELSE 0 ]

\* A variant of the loop increment that ignores the decimation.
LaserStrideOne(decimation) == 1

\* The loop increment i += decimation.
LaserStride(decimation) == decimation

\* The loop over the rays: st holds i, A, scan, validRange, the generator
\* and the rays simulated so far.
RECURSIVE LaserLoop(_, _, _)
LaserLoop(g, c, st) ==
    IF ~(st.i < c.N)
    THEN st
    ELSE LET res == simulateScanRay(g, st.rng, c.x, c.y, st.A, c.max_ray_len,
                                    c.free_thres, c.noiseStd, c.angleNoiseStd)
         IN  LaserLoop(g, c,
                 [ i          |-> st.i + LaserStride(c.decimation),
                   A          |-> st.A + c.AA * c.decimation,
                   scan       |-> [ st.scan EXCEPT ![st.i] = res.out_range ],
                   validRange |-> [ st.validRange EXCEPT
                                      ![st.i] = IF res.out_valid THEN 1 ELSE 0 ],
                   rng        |-> res.rng,
                   rays       |-> Append(st.rays,
                                    [ i |-> st.i, A |-> st.A,
                                      out_range |-> res.out_range,
                                      out_valid |-> res.out_valid ]) ])

\* laserScanSimulator(inout_Scan, robotPose, threshold, N, noiseStd,
\*                    decimation, angleNoiseStd) on grid g with the generator
\* in state r; threshold is in tenths.
laserScanSimulator(g, r, obs, robotPose, threshold, N, noiseStd, decimation, angleNoiseStd) ==
    LET sensorPose  == ComposePose(robotPose, obs.sensorPose)
        A0          == sensorPose.phi
                         + (IF obs.rightToLeft THEN 0 - (obs.aperture \div 2)
                                               ELSE obs.aperture \div 2)
        AA          == (IF obs.rightToLeft THEN 1 ELSE -1)
                         * (obs.aperture \div (N - 1))
        free_thres  == 10 - threshold
        max_ray_len == RoundDiv(obs.maxRange, Resolution)
    IN  LaserLoop(g,
            [ x |-> sensorPose.x, y |-> sensorPose.y, N |-> N, AA |-> AA,
              decimation |-> decimation, max_ray_len |-> max_ray_len,
              free_thres |-> free_thres, noiseStd |-> noiseStd,
              angleNoiseStd |-> angleNoiseStd ],
            [ i |-> 0, A |-> A0,
              scan |-> Resize(obs.scan, N),
              validRange |-> Resize(obs.validRange, N),
              rng |-> r, rays |-> << >> ])

\* Apertures of the scans: half a turn and a full turn.
Apertures == { HalfTurn, 2 * HalfTurn }

\* Lengths of the scan and validRange vectors before the call:
\* shorter than any N, longer than any N.
PriorLens == { 1, MaxRays + 1 }

\* The observations given to laserScanSimulator; what scan and validRange
\* hold before the call is no value a simulated ray can give.
Scans ==
    { [ sensorPose |-> sp, aperture |-> ap, rightToLeft |-> rtl, maxRange |-> mr,
        scan |-> [ i \in 0 .. (len - 1) |-> -1 ],
        validRange |-> [ i \in 0 .. (len - 1) |-> 2 ] ] :
      sp \in SensorPoses, ap \in Apertures, rtl \in BOOLEAN, mr \in MaxRanges,
      len \in PriorLens }

NoScanObs == [ scan |-> << >>, validRange |-> << >> ]

NoLaser == [ called |-> FALSE ]

\* One call of laserScanSimulator on the observation.
LaserScanSimulator ==
    /\ ~laser.called
    /\ \E robotPose \in RobotPoses, t \in Thresholds, N \in 2 .. MaxRays,
          ns \in RangeNoiseStds, d \in 1 .. MaxDecimation, as \in AngleNoiseStds :
          LET st == laserScanSimulator(grid, rng, inout_Scan, robotPose, t, N,
                                       ns, d, as)
          IN  /\ inout_Scan' = [ inout_Scan EXCEPT !.scan = st.scan,
                                                   !.validRange = st.validRange ]
              /\ rng' = st.rng
              /\ laser' = [ called |-> TRUE, robotPose |-> robotPose,
                            threshold |-> t, N |-> N, noiseStd |-> ns,
                            decimation |-> d, angleNoiseStd |-> as,
                            prior_scan |-> inout_Scan.scan,
                            prior_validRange |-> inout_Scan.validRange,
                            rays |-> st.rays ]
    /\ UNCHANGED << grid, ray, inout_observation, sonar >>
    /\ UNCHANGED erdVars

(***************************************************************************)
(* sonarSimulator.                                                         *)
(***************************************************************************)

\* The test that makes a ray's range the new min_detected_obs.
KeepsRange(valid, sim_rang, min_detected_obs, i) ==
    valid /\ (sim_rang < min_detected_obs \/ i = 0)

\* The loop over the rays of one cone: st holds i, direction,
\* min_detected_obs, the generator and the rays simulated so far.
RECURSIVE SonarFan(_, _, _)
SonarFan(g, c, st) ==
    IF ~(st.i < c.nRays)
    THEN st
    ELSE LET res == simulateScanRay(g, st.rng, c.x, c.y, st.direction,
                                    c.max_ray_len, c.free_thres,
                                    c.rangeNoiseStd, c.angleNoiseStd)
         IN  SonarFan(g, c,
                 [ i         |-> st.i + 1,
                   direction |-> st.direction + c.Adir,
                   min_detected_obs |->
                       IF KeepsRange(res.out_valid, res.out_range,
                                     st.min_detected_obs, st.i)
                       THEN res.out_range ELSE st.min_detected_obs,
                   rng  |-> res.rng,
                   rays |-> Append(st.rays, [ valid |-> res.out_valid,
                                              sim_rang |-> res.out_range ]) ])

\* The body of the loop over the transducers, for the one with pose itR.
SonarCone(g, r, obs, itR, robotPose, free_thres, max_ray_len, rangeNoiseStd, angleNoiseStd) ==
    LET sensorAbsolutePose == ComposePose(robotPose, itR.sensorPose)
        nRays     == RoundDiv(DegUnits + obs.sensorConeApperture, DegUnits)
        direction == sensorAbsolutePose.phi - (obs.sensorConeApperture \div 2)
        Adir      == obs.sensorConeApperture \div nRays
    IN  SonarFan(g,
            [ x |-> sensorAbsolutePose.x, y |-> sensorAbsolutePose.y,
              nRays |-> nRays, Adir |-> Adir, max_ray_len |-> max_ray_len,
              free_thres |-> free_thres, rangeNoiseStd |-> rangeNoiseStd,
              angleNoiseStd |-> angleNoiseStd ],
            [ i |-> 0, direction |-> direction,
              min_detected_obs |-> 0, rng |-> r, rays |-> << >> ])

\* The loop over the transducers: st holds the position itR of the
\* iterator, the readings, the generator and the fans simulated so far.
RECURSIVE SonarLoop(_, _, _, _, _, _, _, _)
SonarLoop(g, obs, robotPose, free_thres, max_ray_len, rangeNoiseStd, angleNoiseStd, st) ==
    IF st.itR > Len(obs.sensors)
    THEN st
    ELSE LET fan == SonarCone(g, st.rng, obs, obs.sensors[st.itR], robotPose,
                              free_thres, max_ray_len, rangeNoiseStd,
                              angleNoiseStd)
         IN  SonarLoop(g, obs, robotPose, free_thres, max_ray_len,
                 rangeNoiseStd, angleNoiseStd,
                 [ itR     |-> st.itR + 1,
                   sensors |-> [ st.sensors EXCEPT
                                   ![st.itR].sensedDistance = fan.min_detected_obs ],
                   rng     |-> fan.rng,
                   fans    |-> Append(st.fans, fan.rays) ])

\* sonarSimulator(inout_observation, robotPose, threshold, rangeNoiseStd,
\*                angleNoiseStd) on grid g with the generator in state r.
sonarSimulator(g, r, obs, robotPose, threshold, rangeNoiseStd, angleNoiseStd) ==
    LET free_thres  == 10 - threshold
        max_ray_len == RoundDiv(obs.maxSensorDistance, Resolution)
    IN  SonarLoop(g, obs, robotPose, free_thres, max_ray_len, rangeNoiseStd,
                  angleNoiseStd,
                  [ itR |-> 1, sensors |-> obs.sensors, rng |-> r,
                    fans |-> << >> ])

\* Cone apertures of the sonars: 20 and 40 degrees.
ConeApertures == { 20 * DegUnits, 40 * DegUnits }

\* The transducer lists: up to MaxSensors transducers, whose reading before
\* the call is no value a simulated ray can give.
SensorLists ==
    UNION { [ 1 .. n -> { [ sensorPose |-> sp, sensedDistance |-> -1 ] :
                          sp \in SensorPoses } ] : n \in 0 .. MaxSensors }

\* The observations given to sonarSimulator.
RangeObservations ==
    [ sensorConeApperture : ConeApertures, maxSensorDistance : MaxRanges,
      sensors : SensorLists ]

NoRangeObs == [ sensors |-> << >> ]

NoSonar == [ called |-> FALSE ]

\* One call of sonarSimulator on the observation.
SonarSimulator ==
    /\ ~sonar.called
    /\ \E robotPose \in RobotPoses, t \in Thresholds,
          ns \in RangeNoiseStds, as \in AngleNoiseStds :
          LET st == sonarSimulator(grid, rng, inout_observation, robotPose, t,
                                   ns, as)
          IN  /\ inout_observation' =
                     [ inout_observation EXCEPT !.sensors = st.sensors ]
              /\ rng' = st.rng
              /\ sonar' = [ called |-> TRUE, robotPose |-> robotPose,
                            threshold |-> t, rangeNoiseStd |-> ns,
                            angleNoiseStd |-> as, fans |-> st.fans ]
    /\ UNCHANGED << grid, ray, inout_Scan, laser >>
    /\ UNCHANGED erdVars

\* No simulator is in use.
SimIdle ==
    /\ grid = NoGrid
    /\ rng = [ seed |-> 0, pos |-> 0 ]
    /\ ray = NoRay
    /\ inout_Scan = NoScanObs
    /\ laser = NoLaser
    /\ inout_observation = NoRangeObs
    /\ sonar = NoSonar

\* The decider is not in use: it stays as constructed.
ERDIdle ==
    /\ InitERD
    /\ rawlogFormat = "observation-only"
    /\ params.ICP_max_distance = 0
    /\ params.LC_min_nodeid_diff = 0

Init == InitERD /\ SimIdle

Next == Update \/ AddNode

Spec == Init /\ [][Next]_vars

\* simulateScanRay alone, on every grid.
InitRay ==
    /\ ERDIdle
    /\ grid \in Grids
    /\ rng \in [ seed : Seeds, pos : { 0 } ]
    /\ ray = NoRay
    /\ inout_Scan = NoScanObs
    /\ laser = NoLaser
    /\ inout_observation = NoRangeObs
    /\ sonar = NoSonar

NextRay == SimulateScanRay

SpecRay == InitRay /\ [][NextRay]_vars

\* simulateScanRay alone, on every grid, with any max_ray_len.
NextRayAnyLength == SimulateScanRayAnyLength

SpecRayAnyLength == InitRay /\ [][NextRayAnyLength]_vars

\* laserScanSimulator alone, on the open grids.
InitLaser ==
    /\ ERDIdle
    /\ grid \in OpenGrids
    /\ rng \in [ seed : Seeds, pos : { 0 } ]
    /\ ray = NoRay
    /\ inout_Scan \in Scans
    /\ laser = NoLaser
    /\ inout_observation = NoRangeObs
    /\ sonar = NoSonar

NextLaser == LaserScanSimulator

SpecLaser == InitLaser /\ [][NextLaser]_vars

\* sonarSimulator alone, on the open grids.
InitSonar ==
    /\ ERDIdle
    /\ grid \in OpenGrids
    /\ rng \in [ seed : Seeds, pos : { 0 } ]
    /\ ray = NoRay
    /\ inout_Scan = NoScanObs
    /\ laser = NoLaser
    /\ inout_observation \in RangeObservations
    /\ sonar = NoSonar

NextSonar == SonarSimulator

SpecSonar == InitSonar /\ [][NextSonar]_vars

(***************************************************************************)
(* Properties of the decider.                                              *)
(***************************************************************************)

\* An edge of the most recent update is a loop closure.
LastUpdateInsertedLC ==
    \E i \in DOMAIN lastUpdate.edges :
        Abs(lastUpdate.edges[i][2] - lastUpdate.edges[i][1])
            > params.LC_min_nodeid_diff

\* C1: justInsertedLoopClosure() is true if and only if the most recent
\* update inserted at least one edge whose id gap exceeds LC_min_nodeid_diff;
\* after an update that detected no new node it is false.
C1_LatchIffLastUpdateInsertedLC ==
    m_just_inserted_loop_closure <=> LastUpdateInsertedLC

\* C2: every insertEdge(a, b) call of an update has b = the newest node and
\* a < b, whatever ICP_max_distance is.
C2_EdgesGoFromOlderToNewest ==
    \A i \in DOMAIN lastUpdate.edges :
        /\ lastUpdate.edges[i][2] = lastUpdate.n
        /\ lastUpdate.edges[i][1] < lastUpdate.edges[i][2]

\* C3: the candidate set of a new node n never holds n: it is the set of the
\* ids i < n within ICP_max_distance of n when that is positive, and
\* {0 .. nodeCount-2} otherwise.
C3_CandidateSet ==
    lastUpdate.registered_new_node =>
        lastUpdate.nodes_to_check_ICP =
            IF params.ICP_max_distance > 0
            THEN { i \in 0 .. (lastUpdate.n - 1) :
                     DistSq(nodes[i], nodes[lastUpdate.n])
                         <= params.ICP_max_distance * params.ICP_max_distance }
            ELSE 0 .. (lastUpdate.n - 1)

\* C4: every key of the 2D and of the 3D scan registry is below nodeCount(),
\* and each registry holds at most nodeCount() keys.
C4_RegistryKeysBelowNodeCount ==
    \A reg \in { m_nodes_to_laser_scans2D, m_nodes_to_laser_scans3D } :
        /\ \A k \in DOMAIN reg : k < nodeCount
        /\ Cardinality(DOMAIN reg) <= nodeCount

\* C4 witness: both registries hold the scan of the newest node.
C4_Witness ==
    /\ (nodeCount - 1) \in DOMAIN m_nodes_to_laser_scans2D
    /\ (nodeCount - 1) \in DOMAIN m_nodes_to_laser_scans3D
    /\ Cardinality(DOMAIN m_nodes_to_laser_scans2D) > 1

\* "LC" is never counted alone: each "LC" increment of the most recent update
\* directly follows the "ICP2D" or "ICP3D" increment of the same edge.
LCFollowsICP ==
    \A i \in DOMAIN lastUpdate.incs :
        lastUpdate.incs[i].label = "LC" =>
            /\ i > 1
            /\ lastUpdate.incs[i - 1].label \in { "ICP2D", "ICP3D" }
            /\ lastUpdate.incs[i - 1].from = lastUpdate.incs[i].from
            /\ lastUpdate.incs[i - 1].to = lastUpdate.incs[i].to
            /\ \E j \in DOMAIN lastUpdate.edges :
                  lastUpdate.edges[j] =
                      << lastUpdate.incs[i].from, lastUpdate.incs[i].to >>

CountersBalanced ==
    m_edge_types_to_nums["LC"]
        <= m_edge_types_to_nums["ICP2D"] + m_edge_types_to_nums["ICP3D"]

CountersNeverDecrease ==
    \A l \in EdgeLabels : m_edge_types_to_nums'[l] >= m_edge_types_to_nums[l]

\* C5: in every reachable state LC <= ICP2D + ICP3D, every "LC" increment
\* comes with the "ICP2D"/"ICP3D" increment of the same inserted edge, and no
\* counter ever decreases.
C5_CountersConsistent ==
    /\ [](CountersBalanced /\ LCFollowsICP)
    /\ [][CountersNeverDecrease]_vars

\* C5 witness: loop closures and plain edges of both kinds have been counted.
C5_Witness ==
    /\ m_edge_types_to_nums["LC"] >= 1
    /\ m_edge_types_to_nums["ICP2D"] >= 1
    /\ m_edge_types_to_nums["ICP3D"] >= 1
    /\ m_edge_types_to_nums["LC"]
         < m_edge_types_to_nums["ICP2D"] + m_edge_types_to_nums["ICP3D"]
    /\ \E i \in DOMAIN lastUpdate.incs : lastUpdate.incs[i].label = "LC"

\* Scenario S2: the first update of a fresh decider finds that the 2-node
\* graph has grown to 3 nodes, carries a 2D scan, and node 0 is a candidate
\* of node 2.
S2 ==
    /\ lastUpdate.fresh
    /\ lastUpdate.registered_new_node
    /\ lastUpdate.n = 2
    /\ m_last_laser_scan2D # NoScan
    /\ 0 \in lastUpdate.nodes_to_check_ICP

\* C10 as stated: in scenario S2 the update inserts exactly the edge (0, 2)
\* and leaves ICP2D = 1 and LC = 0.
C10_S2InsertsEdgeFromNode0 ==
    S2 => /\ lastUpdate.edges = << << 0, 2 >> >>
          /\ m_edge_types_to_nums["ICP2D"] = 1
          /\ m_edge_types_to_nums["LC"] = 0

\* C10 amended: in scenario S2 the update binds the scan to node 2, never
\* runs ICP against node 0 or 1 (they have no scan) and inserts no edge from
\* them; ICP2D counts the inserted edges, LC = 0, and with a positive
\* ICP_max_distance no edge is inserted at all.
C10_S2InsertsNoEdgeFromNode0 ==
    S2 => /\ DOMAIN m_nodes_to_laser_scans2D = { 2 }
          /\ \A i \in DOMAIN lastUpdate.calls : lastUpdate.calls[i] \notin { 0, 1 }
          /\ \A i \in DOMAIN lastUpdate.edges : lastUpdate.edges[i][1] \notin { 0, 1 }
          /\ m_edge_types_to_nums["ICP2D"] = Len(lastUpdate.edges)
          /\ m_edge_types_to_nums["ICP3D"] = 0
          /\ m_edge_types_to_nums["LC"] = 0
          /\ params.ICP_max_distance > 0 =>
                /\ lastUpdate.edges = << >>
                /\ lastUpdate.calls = << >>
                /\ m_edge_types_to_nums["ICP2D"] = 0

\* C10 witness: scenario S2 with a positive ICP_max_distance.
C10_Witness == S2 /\ params.ICP_max_distance > 0

(***************************************************************************)
(* Properties of simulateScanRay (specification SpecRay).                  *)
(***************************************************************************)

\* Every cell of the grid is free: above the free threshold and not unknown.
AllFree ==
    \A i \in DOMAIN grid.map :
        grid.map[i] > p2l(ray.threshold_free) /\ Abs(grid.map[i]) > 1

\* Every cell of the grid is occupied: at or below the free threshold and
\* not unknown.
AllOccupied ==
    \A i \in DOMAIN grid.map :
        grid.map[i] <= p2l(ray.threshold_free) /\ Abs(grid.map[i]) > 1

\* The ray starts in a cell of the grid.
StartInGrid ==
    /\ x2idx(ray.start_x) \in 0 .. (grid.size_x - 1)
    /\ y2idx(ray.start_y) \in 0 .. (grid.size_y - 1)

NoNoise == ray.noiseStd = 0 /\ ray.angleNoiseStd = 0

\* The noise-free ray is in a cell of the grid after k steps.
InsideAfter(k) ==
    /\ x2idx(ray.start_x + k * CosR(ray.angle_direction)) \in 0 .. (grid.size_x - 1)
    /\ y2idx(ray.start_y + k * SinR(ray.angle_direction)) \in 0 .. (grid.size_y - 1)

\* The number of steps, at most limit, the noise-free ray takes from step k
\* on before it is outside the grid.
RECURSIVE StepsInside(_, _)
StepsInside(k, limit) ==
    IF k >= limit \/ ~InsideAfter(k) THEN k ELSE StepsInside(k + 1, limit)

C8_AllOccupiedGivesZeroValid ==
    (ray.called /\ AllOccupied)
        => ray.out_range = 0 /\ ray.out_valid

\* C8 amended: on an all-occupied grid a ray that starts inside the grid
\* stops on its first cell; with max_ray_len >= 1 it is valid and out_range
\* is 0 plus the range noise (0 when noiseStd = 0); with max_ray_len = 0 it
\* is invalid with out_range = 0.  A ray that starts outside the grid is
\* invalid with out_range = 0.
C8_AllOccupiedStopsOnFirstCell ==
    (ray.called /\ AllOccupied)
        => /\ ray.march.ray_len = 0
           /\ (StartInGrid /\ ray.max_ray_len >= 1)
                 => /\ ray.out_valid
                    /\ ray.out_range = ray.noise
                    /\ ray.noiseStd = 0 => ray.out_range = 0
           /\ (~StartInGrid \/ ray.max_ray_len = 0)
                 => ~ray.out_valid /\ ray.out_range = 0

\* C8 witness: a ray from inside an all-occupied grid with max_ray_len >= 1
\* and no range noise.
C8_Witness ==
    /\ ray.called /\ AllOccupied /\ StartInGrid
    /\ ray.max_ray_len >= 1
    /\ ray.noiseStd = 0
    /\ ray.out_valid

(***************************************************************************)
(* Properties of laserScanSimulator (specification SpecLaser).             *)
(***************************************************************************)

\* The angle A0 of the ray of index 0 and the angle dA between two rays.
LaserA0 ==
    laser.robotPose.phi + inout_Scan.sensorPose.phi
        + (IF inout_Scan.rightToLeft THEN 0 - (inout_Scan.aperture \div 2)
                                     ELSE inout_Scan.aperture \div 2)

LaserdA ==
    (IF inout_Scan.rightToLeft THEN 1 ELSE -1)
        * (inout_Scan.aperture \div (laser.N - 1))

\* What index i of a vector holds after resize(N), given the vector before.
AfterResize(prior, i) == IF i \in DOMAIN prior THEN prior[i] ELSE 0

\* C9: after laserScanSimulator with N rays and decimation d, scan and
\* validRange have N entries; ceil(N/d) rays were simulated, the k-th for
\* index i = (k-1)*d with angle A0 + i*dA, and its result is what index i
\* holds; every index that is not a multiple of d holds what it held after
\* the resize.
C9_DecimationWritesMultiplesOfD ==
    laser.called =>
        LET N == laser.N
            d == laser.decimation
        IN  /\ DOMAIN inout_Scan.scan = 0 .. (N - 1)
            /\ DOMAIN inout_Scan.validRange = 0 .. (N - 1)
            /\ Len(laser.rays) = (N + d - 1) \div d
            /\ \A k \in DOMAIN laser.rays :
                   LET r == laser.rays[k]
                   IN  /\ r.i = (k - 1) * d
                       /\ r.i < N
                       /\ r.A = LaserA0 + r.i * LaserdA
                       /\ inout_Scan.scan[r.i] = r.out_range
                       /\ inout_Scan.validRange[r.i] = IF r.out_valid THEN 1 ELSE 0
            /\ \A i \in 0 .. (N - 1) :
                   i % d # 0 =>
                      /\ inout_Scan.scan[i] = AfterResize(laser.prior_scan, i)
                      /\ inout_Scan.validRange[i]
                            = AfterResize(laser.prior_validRange, i)

\* C9 witness: a call with decimation >= 2 on vectors longer than N, after
\* which a skipped index still holds what it held before the call and the
\* last simulated ray is not the ray of index 0.
C9_Witness ==
    /\ laser.called
    /\ laser.decimation >= 2
    /\ Len(laser.rays) >= 2
    /\ \E i \in 0 .. (laser.N - 1) :
          /\ i % laser.decimation # 0
          /\ i \in DOMAIN laser.prior_scan
          /\ inout_Scan.scan[i] = laser.prior_scan[i]

(***************************************************************************)
(* Properties of sonarSimulator (specification SpecSonar).                 *)
(***************************************************************************)

\* The ranges of the valid rays of the k-th transducer's fan.
ValidRanges(k) ==
    { sonar.fans[k][j].sim_rang :
        j \in { j \in DOMAIN sonar.fans[k] : sonar.fans[k][j].valid } }

\* C6: after sonarSimulator, sensedDistance of every transducer is the
\* minimum range over the valid rays of its fan, and 0 when no ray is valid.
C6_SonarIsMinOfValidRays ==
    sonar.called =>
        \A k \in DOMAIN sonar.fans :
            inout_observation.sensors[k].sensedDistance
                = IF ValidRanges(k) = {} THEN 0 ELSE SetMin(ValidRanges(k))

(***************************************************************************)
(* Properties of the decider, continued (specification Spec).              *)
(***************************************************************************)

\* C11 as stated: once m_is_using_3DScan is true (an update has ingested a
\* 3D range scan) it stays true over every later update, whatever
\* observation the update carries.
C11_3DModeIsLatched == [][m_is_using_3DScan => m_is_using_3DScan']_vars

(***************************************************************************)
(* The decider bound to a graph of any size.                               *)
(***************************************************************************)

\* initCICPGoodnessERD_t, setGraphPtr and loadConfig, the graph holding any
\* number of nodes up to the two of the skeleton.
InitAnyGraph ==
    /\ rawlogFormat \in RawlogFormats
    /\ nodeCount \in 0 .. LastTotalInit
    /\ nodes = [ i \in 0 .. (nodeCount - 1) |-> Origin ]
    /\ params \in [ ICP_max_distance : { 1 },
                    ICP_goodness_thresh : { GoodnessThreshDefault },
                    LC_min_nodeid_diff : { 1 },
                    visualize_laser_scans : { TRUE },
                    enable_intensity_viewport : { TRUE },
                    enable_range_viewport : { TRUE },
                    has_read_config : { TRUE } ]
    /\ m_last_total_num_of_nodes = LastTotalInit
    /\ m_last_laser_scan2D = NoScan
    /\ m_last_laser_scan3D = NoScan
    /\ m_is_using_3DScan = FALSE
    /\ m_nodes_to_laser_scans2D = EmptyMap
    /\ m_nodes_to_laser_scans3D = EmptyMap
    /\ m_edge_types_to_nums = [ l \in EdgeLabels |-> 0 ]
    /\ m_just_inserted_loop_closure = FALSE
    /\ m_checked_for_usuable_dataset = FALSE
    /\ m_consecutive_invalid_format_instances = 0
    /\ diagnosticsLogged = 0
    /\ VisualsAfterConstruction
    /\ lastUpdate = [ called |-> FALSE, registered_new_node |-> FALSE, n |-> -1,
                      nodes_to_check_ICP |-> {}, calls |-> << >>,
                      edges |-> << >>, incs |-> << >>, goodness |-> << >>,
                      kind |-> "none", fresh |-> FALSE ]
    /\ SimIdle

SpecAnyGraph == InitAnyGraph /\ [][Next]_vars

\* The larger of two numbers.
Max(a, b) == IF a < b THEN b ELSE a

\* Over every step m_last_total_num_of_nodes does not decrease, and over an
\* update (a step that leaves the graph as it is) it becomes the larger of
\* its previous value and nodeCount.
LastTotalAdvances ==
    /\ m_last_total_num_of_nodes' >= m_last_total_num_of_nodes
    /\ nodeCount' = nodeCount =>
          m_last_total_num_of_nodes' = Max(m_last_total_num_of_nodes, nodeCount)

\* C12 as stated: for a bound graph of any size m_last_total_num_of_nodes is
\* at most nodeCount in every state; it never decreases, and after an update
\* it is max(previous value, nodeCount).
C12_LastTotalAtMostNodeCount ==
    /\ [](m_last_total_num_of_nodes <= nodeCount)
    /\ [][LastTotalAdvances]_vars

\* C12 amended: m_last_total_num_of_nodes is at most max(2, nodeCount) in
\* every state, hence at most nodeCount once the graph holds its two
\* skeleton nodes; it never decreases, and after an update it is
\* max(previous value, nodeCount).
C12_LastTotalAtMostNodeCountOrTwo ==
    /\ [](/\ m_last_total_num_of_nodes <= Max(LastTotalInit, nodeCount)
          /\ nodeCount >= LastTotalInit => m_last_total_num_of_nodes <= nodeCount)
    /\ [][LastTotalAdvances]_vars

\* C12 witness: an update was made on a graph of fewer than two nodes.
C12_Witness ==
    /\ lastUpdate.called
    /\ nodeCount < LastTotalInit
    /\ m_last_total_num_of_nodes = LastTotalInit

\* The edges of the most recent update are in strictly ascending order of
\* their candidate ("from") id.
EdgesAscending ==
    \A i, j \in DOMAIN lastUpdate.edges :
        i < j => lastUpdate.edges[i][1] < lastUpdate.edges[j][1]

\* Every edge of the most recent update ends at the node the update was
\* made for.
EdgesEndAtUpdateNode ==
    \A i \in DOMAIN lastUpdate.edges : lastUpdate.edges[i][2] = lastUpdate.n

\* C13: within one update the edges are inserted in strictly ascending
\* candidate id order; every edge ends at the newest node of its update and
\* that node id never decreases from one update to the next, so the "to"
\* ids of the inserted edges are non-decreasing over time.
C13_EdgesInAscendingOrder ==
    /\ [](EdgesAscending /\ EdgesEndAtUpdateNode)
    /\ [][lastUpdate'.n >= lastUpdate.n]_vars

\* C13 witness: an update that inserted at least two edges.
C13_Witness == Len(lastUpdate.edges) >= 2

\* A step is an update on a graph that has no node the decider has not seen:
\* it leaves the graph as it is, and nodeCount is not greater than
\* m_last_total_num_of_nodes.
UpdateWithoutNewNode ==
    /\ nodeCount' = nodeCount
    /\ ~(m_last_total_num_of_nodes < nodeCount)
    /\ vars' # vars

\* Such an update inserts no edge, calls the ICP solver zero times and leaves
\* the registries and the counters as they are.
NoOpOnDecider ==
    /\ lastUpdate'.called
    /\ lastUpdate'.edges = << >>
    /\ lastUpdate'.calls = << >>
    /\ m_nodes_to_laser_scans2D' = m_nodes_to_laser_scans2D
    /\ m_nodes_to_laser_scans3D' = m_nodes_to_laser_scans3D
    /\ m_edge_types_to_nums' = m_edge_types_to_nums

\* Scenario S1: the graph still holds its two nodes.
S1 == nodeCount = LastTotalInit /\ m_last_total_num_of_nodes = LastTotalInit

\* C14: an update with nodeCount not greater than last_total_nodes inserts
\* no edge, calls ICP zero times and leaves both registries and the three
\* counters unchanged, whatever it carries; while the graph holds its two
\* initial nodes (S1) the registries are empty, the counters 0 and the latch
\* false.
C14_UpdateWithoutNewNodeIsNoOp ==
    /\ [][UpdateWithoutNewNode => NoOpOnDecider]_vars
    /\ [](S1 => /\ DOMAIN m_nodes_to_laser_scans2D = {}
                /\ DOMAIN m_nodes_to_laser_scans3D = {}
                /\ \A l \in EdgeLabels : m_edge_types_to_nums[l] = 0
                /\ ~m_just_inserted_loop_closure)

\* C14 witness: scenario S1 after one update that carried a 2D range scan.
C14_Witness ==
    /\ S1
    /\ lastUpdate.called
    /\ ~lastUpdate.registered_new_node
    /\ m_last_laser_scan2D # NoScan

\* A step is an update that detects a new node.
UpdateWithNewNode ==
    /\ nodeCount' = nodeCount
    /\ m_last_total_num_of_nodes < nodeCount

\* C16 as stated: in an update that detects a new node only the registry of
\* the active scan kind may gain a key; the registry of the other kind is
\* left unchanged.
C16_OnlyActiveRegistryGainsKey ==
    [][UpdateWithNewNode =>
          IF m_is_using_3DScan'
          THEN m_nodes_to_laser_scans2D' = m_nodes_to_laser_scans2D
          ELSE m_nodes_to_laser_scans3D' = m_nodes_to_laser_scans3D]_vars

(***************************************************************************)
(* C17: the goodness threshold.                                            *)
(***************************************************************************)

\* The steps registered by the last update for the candidate c: its edges and
\* its increments of the counter of the active mode.
EdgesOf(c) ==
    { i \in DOMAIN lastUpdate.edges : lastUpdate.edges[i] = << c, lastUpdate.n >> }

ModeIncsOf(c) ==
    { i \in DOMAIN lastUpdate.incs :
        /\ lastUpdate.incs[i].from = c
        /\ lastUpdate.incs[i].label \in { "ICP2D", "ICP3D" } }

AnyIncsOf(c) ==
    { i \in DOMAIN lastUpdate.incs : lastUpdate.incs[i].from = c }

\* An update in which no alignment exceeded the threshold leaves the counters
\* and the graph's edges as they were.
NothingAboveThreshold ==
    /\ nodeCount' = nodeCount
    /\ \A c \in DOMAIN lastUpdate'.goodness :
         lastUpdate'.goodness[c] <= params.ICP_goodness_thresh

\* C17: for every candidate on which ICP ran, an edge is registered and the
\* counter of the active mode is incremented exactly once if and only if the
\* goodness is strictly greater than ICP_goodness_thresh; a goodness equal to
\* or below the threshold registers nothing and increments nothing; and
\* nothing is registered for a candidate ICP did not run on.
C17_EdgeIffGoodnessAboveThreshold ==
    /\ [](/\ DOMAIN lastUpdate.goodness = { lastUpdate.calls[i] : i \in DOMAIN lastUpdate.calls }
          /\ \A c \in DOMAIN lastUpdate.goodness :
               IF lastUpdate.goodness[c] > params.ICP_goodness_thresh
               THEN Cardinality(EdgesOf(c)) = 1 /\ Cardinality(ModeIncsOf(c)) = 1
               ELSE EdgesOf(c) = {} /\ AnyIncsOf(c) = {}
          /\ \A i \in DOMAIN lastUpdate.edges :
               lastUpdate.edges[i][1] \in DOMAIN lastUpdate.goodness
          /\ \A i \in DOMAIN lastUpdate.incs :
               lastUpdate.incs[i].from \in DOMAIN lastUpdate.goodness)
    /\ [][NothingAboveThreshold =>
            m_edge_types_to_nums' = m_edge_types_to_nums /\ lastUpdate'.edges = << >>]_vars

\* An update ran ICP on a candidate whose goodness equals the threshold and
\* on one whose goodness exceeds it.
C17_Witness ==
    /\ \E c \in DOMAIN lastUpdate.goodness :
         lastUpdate.goodness[c] = params.ICP_goodness_thresh
    /\ \E c \in DOMAIN lastUpdate.goodness :
         lastUpdate.goodness[c] > params.ICP_goodness_thresh

(***************************************************************************)
(* C18: classification of an edge as a loop closure.                       *)
(***************************************************************************)

\* The increments of "LC" the last update made for the edge (c, n).
LCIncsOf(c) ==
    { i \in DOMAIN lastUpdate.incs :
        /\ lastUpdate.incs[i].label = "LC"
        /\ lastUpdate.incs[i].from = c
        /\ lastUpdate.incs[i].to = lastUpdate.n }

\* The id gap of the edge (c, n) of the last update.
IdGap(c) == Abs(lastUpdate.n - c)

\* C18: for every edge (c, n) the last update registered, "LC" is incremented
\* once for it if and only if |n - c| > LC_min_nodeid_diff, strictly, and not
\* at all otherwise; "LC" is incremented for registered edges only; and an
\* update that registered a node leaves the latch set exactly when one of its
\* edges was so classified, whatever the mode.
C18_LoopClosureIffGapAboveMinimum ==
    /\ \A i \in DOMAIN lastUpdate.edges :
         LET c == lastUpdate.edges[i][1]
         IN  Cardinality(LCIncsOf(c)) =
               IF IdGap(c) > params.LC_min_nodeid_diff THEN 1 ELSE 0
    /\ \A i \in DOMAIN lastUpdate.incs :
         lastUpdate.incs[i].label = "LC" =>
           \E j \in DOMAIN lastUpdate.edges :
              lastUpdate.edges[j] = << lastUpdate.incs[i].from, lastUpdate.incs[i].to >>
    /\ lastUpdate.registered_new_node =>
         ( m_just_inserted_loop_closure <=>
             \E i \in DOMAIN lastUpdate.edges :
                IdGap(lastUpdate.edges[i][1]) > params.LC_min_nodeid_diff )

\* An update in 3D mode registered an edge whose id gap equals
\* LC_min_nodeid_diff and an edge whose id gap exceeds it.
C18_Witness ==
    /\ m_is_using_3DScan
    /\ \E i \in DOMAIN lastUpdate.edges :
         IdGap(lastUpdate.edges[i][1]) = params.LC_min_nodeid_diff
    /\ \E i \in DOMAIN lastUpdate.edges :
         IdGap(lastUpdate.edges[i][1]) > params.LC_min_nodeid_diff

(***************************************************************************)
(* The dataset sanity check, on datasets with any number of leading        *)
(* observations of another class.                                          *)
(***************************************************************************)

\* One step of the driver, as Update, on any entry of the rawlog: the number
\* of observations of another class that precede the first scan is not
\* bounded.
UpdateAnyEntry ==
    \E kind \in KindsOf(rawlogFormat), scan \in ScanIds :
        updateDeciderState(kind, scan)

InitDataset ==
    /\ InitERD
    /\ params.ICP_max_distance = 1
    /\ params.LC_min_nodeid_diff = 1
    /\ SimIdle

NextDataset == UpdateAnyEntry \/ AddNode

SpecDataset == InitDataset /\ [][NextDataset]_vars

(***************************************************************************)
(* C19: the dataset sanity check.                                          *)
(***************************************************************************)

\* A step that is a call of updateDeciderState (the graph keeps its size).
UpdateStep == nodeCount' = nodeCount /\ vars' # vars

\* The check keeps its flag, its count and the console as they are.
DatasetCheckFrozen ==
    /\ m_checked_for_usuable_dataset' = m_checked_for_usuable_dataset
    /\ m_consecutive_invalid_format_instances' = m_consecutive_invalid_format_instances
    /\ diagnosticsLogged' = diagnosticsLogged

\* What an update does to the check while it is armed.
ArmedUpdate ==
    IF lastUpdate'.kind = "ObsOther"
    THEN /\ m_consecutive_invalid_format_instances' =
              m_consecutive_invalid_format_instances + 1
         /\ m_checked_for_usuable_dataset' =
              (m_consecutive_invalid_format_instances' > InvalidFormatThres)
         /\ diagnosticsLogged' =
              IF m_consecutive_invalid_format_instances' > InvalidFormatThres
              THEN diagnosticsLogged + 1
              ELSE diagnosticsLogged
    ELSE /\ m_checked_for_usuable_dataset'
         /\ m_consecutive_invalid_format_instances' =
              m_consecutive_invalid_format_instances
         /\ diagnosticsLogged' = diagnosticsLogged

\* C19: while the check is armed, an update carrying a single observation
\* that is neither a 2D nor a 3D range scan adds one to the count, and disarms
\* the check and writes the diagnostic exactly when the count then exceeds 20
\* (the 21st such update); an update carrying a 2D or 3D range scan, or no
\* single observation, disarms the check and leaves the count; once disarmed
\* the check is never re-armed, the count never changes and nothing more is
\* written, so that the diagnostic is written at most once.
C19_DatasetCheck ==
    /\ [][~m_checked_for_usuable_dataset /\ UpdateStep => ArmedUpdate]_vars
    /\ [][m_checked_for_usuable_dataset => DatasetCheckFrozen]_vars
    /\ [](/\ diagnosticsLogged <= 1
          /\ diagnosticsLogged = 1 =>
               /\ m_checked_for_usuable_dataset
               /\ m_consecutive_invalid_format_instances = InvalidFormatThres + 1
          /\ ~m_checked_for_usuable_dataset =>
               m_consecutive_invalid_format_instances <= InvalidFormatThres)

\* The 21st update in a row with an observation of another class has just
\* disarmed the check and written the diagnostic.
C19_Witness ==
    /\ lastUpdate.kind = "ObsOther"
    /\ m_consecutive_invalid_format_instances = InvalidFormatThres + 1
    /\ m_checked_for_usuable_dataset
    /\ diagnosticsLogged = 1

(***************************************************************************)
(* C20: the validity rule of simulateScanRay.                              *)
(***************************************************************************)

\* The cell the march stopped on is a cell of the grid.
StoppedInGrid ==
    /\ x2idx(ray.march.rx) \in 0 .. (grid.size_x - 1)
    /\ y2idx(ray.march.ry) \in 0 .. (grid.size_y - 1)

\* The log-odds of the cell the march stopped on.
StoppedOn == grid.map[CellIndex(grid, x2idx(ray.march.rx), y2idx(ray.march.ry))]

\* C20: the ray is valid if and only if the march stopped on a cell inside
\* the grid that is not unknown (|log-odds| > 1) and not free (log-odds <=
\* p2l(threshold_free)), with ray_len < max_ray_len; a ray that starts outside
\* the grid, stops outside the grid, stops on an unknown cell or takes
\* max_ray_len steps is invalid.
C20_ValidIffCleanHitInGridBelowMaxLen ==
    ray.called =>
        /\ ray.out_valid <=>
             /\ StoppedInGrid
             /\ ray.march.ray_len < ray.max_ray_len
             /\ Abs(StoppedOn) > 1
             /\ StoppedOn <= p2l(ray.threshold_free)
        /\ ~StartInGrid => ~ray.out_valid
        /\ ~StoppedInGrid => ~ray.out_valid
        /\ (StoppedInGrid /\ Abs(StoppedOn) <= 1) => ~ray.out_valid
        /\ ray.march.ray_len >= ray.max_ray_len => ~ray.out_valid

\* A valid ray that crossed a free cell before its hit.
C20_Witness ==
    /\ ray.called
    /\ ray.out_valid
    /\ ray.march.ray_len >= 1
    /\ StoppedInGrid

(***************************************************************************)
(* The visuals of the decider.                                             *)
(***************************************************************************)

\* What dereferencing a null display window pointer may do: end the process,
\* or go on without touching any scene.
NullDerefOutcomes == { "crash", "continue" }

\* ASSERT_(f) / ASSERTMSG_(f, msg): raises when f does not hold.
AssertRaises(f) == ~f

\* The scan synthesised from the last 3D scan by convert3DTo2DRangeScan.
m_fake_laser_scan2D == IF m_last_laser_scan3D # NoScan THEN "fake" ELSE NoScan

\* The execution state a visuals handler starts from.
HandlerStart ==
    [ locked |-> scene.locked, objects |-> scene.objects,
      viewports |-> scene.viewports, events |-> << >>, outcome |-> "running" ]

\* One block "scene = m_win->get3DSceneAndLock(); ...; unlockAccess3DScene();
\* forceRepaint()" of a handler in execution state v.  The block inserts the
\* objects and viewports of insert, after looking up those of lookup and
\* dereferencing what it found; ub is what a null m_win does.  A lookup
\* that finds nothing gives a null smart pointer, whose dereference raises
\* out of the block, past the release of the lock.  Asking for a lock that is
\* held leaves the handler waiting for it.
SceneBlock(v, ub, lookup, insert) ==
    IF v.outcome # "running"
    THEN v
    ELSE IF m_win = NoWindow
    THEN [ v EXCEPT !.events = Append(@, "null"),
                    !.outcome = IF ub = "crash" THEN "crashed" ELSE @ ]
    ELSE IF v.locked
    THEN [ v EXCEPT !.events = Append(@, "lock"), !.outcome = "deadlocked" ]
    ELSE IF ~(lookup.objects \subseteq v.objects /\ lookup.viewports \subseteq v.viewports)
    THEN [ v EXCEPT !.events = Append(@, "lock"), !.locked = TRUE,
                    !.outcome = "raised" ]
    ELSE [ v EXCEPT !.events = @ \o << "lock", "unlock", "repaint" >>,
                    !.objects = @ \cup insert.objects,
                    !.viewports = @ \cup insert.viewports ]

Nothing == [ objects |-> {}, viewports |-> {} ]
Object(name) == [ objects |-> { name }, viewports |-> {} ]
Viewport(name) == [ objects |-> {}, viewports |-> { name } ]

\* The block runs only under its condition.
SceneBlockIf(cond, v, ub, lookup, insert) ==
    IF cond THEN SceneBlock(v, ub, lookup, insert) ELSE v

\* The text message of the search disk.
TextMessage(v) ==
    IF /\ v.outcome = "running"
       /\ m_win # NoWindow /\ m_win_manager # NoWindow
       /\ params.ICP_max_distance > 0
    THEN [ v EXCEPT !.events = Append(@, "text") ]
    ELSE v

\* The outcome a handler that ran to its end reports.
Returned(v) == IF v.outcome = "running" THEN "returned" ELSE v.outcome

\* A slip: the flag of the visuals asserted in place of the flag of the
\* options.
ConfigReadWrongFlag == ~m_initialized_visuals

\* The condition initializeVisuals asserts.
ConfigRead == params.has_read_config

\* initializeVisuals()
initializeVisuals(ub) ==
    IF AssertRaises(ConfigRead)
    THEN /\ lastVisuals' = [ op |-> "initializeVisuals", outcome |-> "raised",
                             events |-> << >> ]
         /\ UNCHANGED << m_initialized_visuals, scene >>
    ELSE LET v1 == SceneBlockIf(m_win # NoWindow /\ params.ICP_max_distance > 0,
                                HandlerStart, ub, Nothing, Object("ICP_max_distance"))
             v2 == SceneBlockIf(params.visualize_laser_scans,
                                v1, ub, Nothing, Object("laser_scan_viz"))
             v3 == TextMessage(v2)
         IN  /\ m_initialized_visuals' =
                  IF v3.outcome = "running" THEN TRUE ELSE m_initialized_visuals
             /\ scene' = [ locked |-> v3.locked, objects |-> v3.objects,
                           viewports |-> v3.viewports ]
             /\ lastVisuals' = [ op |-> "initializeVisuals", outcome |-> Returned(v3),
                                 events |-> v3.events ]

\* updateVisuals(); hasIntensityImage and hasRangeImage are the fields of the
\* last 3D scan.
updateVisuals(ub, hasIntensityImage, hasRangeImage) ==
    IF AssertRaises(m_initialized_visuals)
    THEN /\ lastVisuals' = [ op |-> "updateVisuals", outcome |-> "raised",
                             events |-> << >> ]
         /\ UNCHANGED << m_initialized_rgbd_viewports, scene >>
    ELSE LET v1 == SceneBlockIf(m_win # NoWindow /\ params.ICP_max_distance > 0,
                                HandlerStart, ub, Object("ICP_max_distance"), Nothing)
             v2 == SceneBlockIf(/\ params.visualize_laser_scans
                                /\ (m_last_laser_scan2D # NoScan \/ m_fake_laser_scan2D # NoScan),
                                v1, ub, Object("laser_scan_viz"), Nothing)
             init == m_is_using_3DScan /\ ~m_initialized_rgbd_viewports
             v3 == SceneBlockIf(init /\ params.enable_intensity_viewport,
                                v2, ub, Nothing, Viewport("viewp_intensity"))
             v4 == SceneBlockIf(init /\ params.enable_range_viewport,
                                v3, ub, Nothing, Viewport("viewp_range"))
             v5 == SceneBlockIf(/\ m_is_using_3DScan
                                /\ hasIntensityImage /\ params.enable_intensity_viewport,
                                v4, ub, Viewport("viewp_intensity"), Nothing)
             v6 == SceneBlockIf(/\ m_is_using_3DScan
                                /\ hasRangeImage /\ params.enable_range_viewport,
                                v5, ub, Viewport("viewp_range"), Nothing)
         IN  /\ m_initialized_rgbd_viewports' =
                  IF init /\ v4.outcome = "running"
                  THEN TRUE ELSE m_initialized_rgbd_viewports
             /\ scene' = [ locked |-> v6.locked, objects |-> v6.objects,
                           viewports |-> v6.viewports ]
             /\ lastVisuals' = [ op |-> "updateVisuals", outcome |-> Returned(v6),
                                 events |-> v6.events ]

\* The decider's own state, which the visuals and the setters leave alone.
deciderVars ==
    << rawlogFormat, nodeCount, nodes, m_last_total_num_of_nodes,
       m_last_laser_scan2D, m_last_laser_scan3D, m_is_using_3DScan,
       m_nodes_to_laser_scans2D, m_nodes_to_laser_scans3D,
       m_edge_types_to_nums, m_just_inserted_loop_closure,
       m_checked_for_usuable_dataset, m_consecutive_invalid_format_instances,
       diagnosticsLogged, lastUpdate >>

\* The process is alive: no handler has ended it or left it waiting for the
\* scene lock.
Running == lastVisuals.outcome \notin { "crashed", "deadlocked" }

\* The driver calls initializeVisuals.
InitializeVisuals ==
    /\ Running
    /\ \E ub \in NullDerefOutcomes : initializeVisuals(ub)
    /\ UNCHANGED << params, m_win, m_win_manager, m_initialized_rgbd_viewports >>
    /\ UNCHANGED deciderVars
    /\ UNCHANGED simVars

\* The driver calls updateVisuals.
UpdateVisuals ==
    /\ Running
    /\ \E ub \in NullDerefOutcomes, hasIntensityImage \in BOOLEAN, hasRangeImage \in BOOLEAN :
          updateVisuals(ub, hasIntensityImage, hasRangeImage)
    /\ UNCHANGED << params, m_win, m_win_manager, m_initialized_visuals >>
    /\ UNCHANGED deciderVars
    /\ UNCHANGED simVars

\* setCDisplayWindowPtr(win)
SetCDisplayWindowPtr ==
    /\ Running
    /\ \E win \in Windows \cup { NoWindow } : m_win' = win
    /\ UNCHANGED << params, m_win_manager, m_initialized_visuals,
                    m_initialized_rgbd_viewports, scene, lastVisuals >>
    /\ UNCHANGED deciderVars
    /\ UNCHANGED simVars

\* setWindowManagerPtr(win_manager)
SetWindowManagerPtr ==
    /\ Running
    /\ \E win_manager \in Managers \cup { NoWindow } : m_win_manager' = win_manager
    /\ UNCHANGED << params, m_win, m_initialized_visuals,
                    m_initialized_rgbd_viewports, scene, lastVisuals >>
    /\ UNCHANGED deciderVars
    /\ UNCHANGED simVars

\* Values of ICP_max_distance a configuration file gives to the visuals:
\* no search disk, or one.
ConfigDistances == { 0, 1 }

\* The configuration files the driver loads: the default options (a search
\* disk, the laser scan visual and both viewports), and the files that
\* differ from the defaults in one option.
ConfigFiles ==
    { c \in [ ICP_max_distance : ConfigDistances,
              visualize_laser_scans : BOOLEAN,
              enable_intensity_viewport : BOOLEAN,
              enable_range_viewport : BOOLEAN ] :
        Cardinality({ k \in { 1, 2, 3, 4 } :
                        CASE k = 1 -> c.ICP_max_distance = 0
                          [] k = 2 -> ~c.visualize_laser_scans
                          [] k = 3 -> ~c.enable_intensity_viewport
                          [] k = 4 -> ~c.enable_range_viewport }) <= 1 }

\* TParams::loadFromConfigFile: the options are read in turn, then the
\* parameters of the range scanner are loaded, which may raise, and only
\* then has_read_config is set.
LoadConfig ==
    /\ Running
    /\ \E c \in ConfigFiles, loaded \in BOOLEAN :
          params' = [ params EXCEPT
                        !.ICP_max_distance = c.ICP_max_distance,
                        !.ICP_goodness_thresh = GoodnessThreshDefault,
                        !.visualize_laser_scans = c.visualize_laser_scans,
                        !.enable_intensity_viewport = c.enable_intensity_viewport,
                        !.enable_range_viewport = c.enable_range_viewport,
                        !.has_read_config = IF loaded THEN TRUE ELSE @ ]
    /\ UNCHANGED visVars
    /\ UNCHANGED deciderVars
    /\ UNCHANGED simVars

\* The driver feeds the decider a 2D or a 3D range scan while the process is
\* alive.
UpdateWithScan ==
    /\ Running
    /\ \E kind \in { "Obs2D", "Obs3D" }, scan \in ScanIds :
          updateDeciderState(kind, scan)

\* The decider after construction and setGraphPtr, before loadConfig: the
\* options hold whatever their storage held.
InitVisuals ==
    /\ rawlogFormat = "observation-only"
    /\ nodeCount = LastTotalInit
    /\ nodes = [ i \in 0 .. (nodeCount - 1) |-> Origin ]
    /\ params \in [ ICP_max_distance : ConfigDistances,
                    ICP_goodness_thresh : { GoodnessThreshDefault },
                    LC_min_nodeid_diff : { 1 },
                    visualize_laser_scans : BOOLEAN,
                    enable_intensity_viewport : BOOLEAN,
                    enable_range_viewport : BOOLEAN,
                    has_read_config : { FALSE } ]
    /\ m_last_total_num_of_nodes = LastTotalInit
    /\ m_last_laser_scan2D = NoScan
    /\ m_last_laser_scan3D = NoScan
    /\ m_is_using_3DScan = FALSE
    /\ m_nodes_to_laser_scans2D = EmptyMap
    /\ m_nodes_to_laser_scans3D = EmptyMap
    /\ m_edge_types_to_nums = [ l \in EdgeLabels |-> 0 ]
    /\ m_just_inserted_loop_closure = FALSE
    /\ m_checked_for_usuable_dataset = FALSE
    /\ m_consecutive_invalid_format_instances = 0
    /\ diagnosticsLogged = 0
    /\ VisualsAfterConstruction
    /\ lastUpdate = [ called |-> FALSE, registered_new_node |-> FALSE, n |-> -1,
                      nodes_to_check_ICP |-> {}, calls |-> << >>,
                      edges |-> << >>, incs |-> << >>, goodness |-> << >>,
                      kind |-> "none", fresh |-> FALSE ]
    /\ SimIdle

NextVisuals ==
    \/ LoadConfig
    \/ SetCDisplayWindowPtr
    \/ SetWindowManagerPtr
    \/ InitializeVisuals
    \/ UpdateVisuals
    \/ UpdateWithScan

SpecVisuals == InitVisuals /\ [][NextVisuals]_vars

(***************************************************************************)
(* C15: the preconditions of the visuals.                                  *)
(***************************************************************************)

\* A call of initializeVisuals made while the options are not loaded raises,
\* touches no scene and leaves m_initialized_visuals false.
InitializeVisualsBeforeLoadRaises ==
    (lastVisuals.op = "initializeVisuals" /\ ~params.has_read_config)
        => /\ lastVisuals.outcome = "raised"
           /\ lastVisuals.events = << >>
           /\ ~m_initialized_visuals

\* A call of updateVisuals made while the visuals are not initialised raises
\* and touches no scene.
UpdateVisualsBeforeInitRaises ==
    (lastVisuals.op = "updateVisuals" /\ ~m_initialized_visuals)
        => /\ lastVisuals.outcome = "raised"
           /\ lastVisuals.events = << >>

\* has_read_config turns true in a step that changes the options only
\* (loadConfig), and the two flags never turn false again.
FlagsOnlyRise ==
    /\ params.has_read_config => params'.has_read_config
    /\ m_initialized_visuals => m_initialized_visuals'
    /\ (~params.has_read_config /\ params'.has_read_config)
          => /\ visVars' = visVars
             /\ deciderVars' = deciderVars
    /\ (~m_initialized_visuals /\ m_initialized_visuals')
          => /\ lastVisuals'.op = "initializeVisuals"
             /\ lastVisuals'.outcome = "returned"
             /\ params.has_read_config

\* C15: initializeVisuals called before a successful loadConfig raises and
\* leaves m_initialized_visuals false; updateVisuals called before a
\* successful initializeVisuals raises; has_read_config is false after
\* construction, turns true only in loadConfig and never turns false again.
C15_VisualsPreconditions ==
    /\ ~params.has_read_config
    /\ [](/\ InitializeVisualsBeforeLoadRaises
          /\ UpdateVisualsBeforeInitRaises
          /\ m_initialized_visuals => params.has_read_config)
    /\ [][FlagsOnlyRise]_vars

\* initializeVisuals has just raised on a decider whose load of the options
\* failed, with a display window bound.
C15_Witness ==
    /\ lastVisuals.op = "initializeVisuals"
    /\ lastVisuals.outcome = "raised"
    /\ ~params.has_read_config
    /\ m_win # NoWindow
    /\ ~m_initialized_visuals

\* updateVisuals has just raised on a decider with the options loaded whose
\* visuals are not initialised.
C15_WitnessUpdate ==
    /\ lastVisuals.op = "updateVisuals"
    /\ lastVisuals.outcome = "raised"
    /\ params.has_read_config
    /\ ~m_initialized_visuals

(***************************************************************************)
(* C21: the range of an invalid ray.                                       *)
(***************************************************************************)

\* The log-odds of the i-th cell the march read.
ReadCell(i) == grid.map[CellIndex(grid, ray.march.reads[i][1], ray.march.reads[i][2])]

\* The steps at which the march went through an unknown cell: the cell read
\* at step k (the (k+1)-th read) for k < ray_len.
UnknownTraversed ==
    { k \in 0 .. (ray.march.ray_len - 1) : Abs(ReadCell(k + 1)) <= 1 }

\* The range the rule gives to an invalid ray.
InvalidRange ==
    IF UnknownTraversed # {}
    THEN SetMin(UnknownTraversed) * Resolution
    ELSE ray.march.ray_len * Resolution

\* C21: a ray that stopped on an unknown cell or outside the grid reports
\* (steps to the first unknown cell it went through) * resolution if it went
\* through an unknown cell before it stopped, and ray_len * resolution
\* otherwise; an invalid ray carries no noise.
C21_InvalidRayRange ==
    ray.called =>
        /\ (~StoppedInGrid \/ Abs(StoppedOn) <= 1)
              => ray.out_range = InvalidRange
        /\ ~ray.out_valid => ray.noise = 0

(***************************************************************************)
(* C25: the ray march is bounded and reads the map inside the grid only.   *)
(***************************************************************************)

\* C25: the march ends after at most max_ray_len steps, so that at exit
\* ray_len <= max_ray_len and the range before noise is a number of steps
\* that is at most max_ray_len, times the resolution; the march reads one
\* cell per step and at most one more, and every cell it reads is a cell of
\* the grid.
C25_MarchBoundedAndInGrid ==
    ray.called =>
        /\ ray.march.ray_len \in 0 .. ray.max_ray_len
        /\ \E k \in 0 .. ray.march.ray_len :
              /\ k <= ray.max_ray_len
              /\ ray.out_range - ray.noise = k * Resolution
        /\ Len(ray.march.reads) \in { ray.march.ray_len, ray.march.ray_len + 1 }
        /\ \A i \in DOMAIN ray.march.reads :
              /\ ray.march.reads[i][1] \in 0 .. (grid.size_x - 1)
              /\ ray.march.reads[i][2] \in 0 .. (grid.size_y - 1)
              /\ CellIndex(grid, ray.march.reads[i][1], ray.march.reads[i][2])
                    \in DOMAIN grid.map

\* A ray that took all of its max_ray_len >= 1 steps inside the grid and
\* read the cell it stopped on.
C25_Witness ==
    /\ ray.called
    /\ ray.max_ray_len >= 1
    /\ ray.march.ray_len = ray.max_ray_len
    /\ Len(ray.march.reads) = ray.max_ray_len + 1

(***************************************************************************)
(* C23: a missing scan.                                                    *)
(***************************************************************************)

\* An update that detects a new node and after whose dispatch no latest scan
\* is held.
UpdateWithNewNodeWithoutScan ==
    /\ nodeCount' = nodeCount
    /\ m_last_total_num_of_nodes < nodeCount
    /\ m_last_laser_scan2D' = NoScan
    /\ m_last_laser_scan3D' = NoScan

\* What such an update does: nothing but advancing last_total_nodes.
SilentNonEvent ==
    /\ m_nodes_to_laser_scans2D' = m_nodes_to_laser_scans2D
    /\ m_nodes_to_laser_scans3D' = m_nodes_to_laser_scans3D
    /\ lastUpdate'.calls = << >>
    /\ lastUpdate'.edges = << >>
    /\ lastUpdate'.incs = << >>
    /\ m_edge_types_to_nums' = m_edge_types_to_nums
    /\ m_last_total_num_of_nodes' = nodeCount

\* The registry of the mode the decider is in.
ActiveRegistry ==
    IF m_is_using_3DScan THEN m_nodes_to_laser_scans3D ELSE m_nodes_to_laser_scans2D

\* The candidates the last update ran ICP on.
CallsOfLastUpdate == { lastUpdate.calls[i] : i \in DOMAIN lastUpdate.calls }

\* C23: an update that detects a new node n while no latest scan is held
\* binds no key, calls ICP on no candidate, inserts no edge, changes no
\* counter and advances last_total_nodes to nodeCount; and in an update that
\* detected a new node whose scan is bound, ICP is called on exactly the
\* candidates that have a scan in the active registry, each once: a
\* candidate without one is skipped and the others are still evaluated.
C23_MissingScanIsSilent ==
    /\ [][UpdateWithNewNodeWithoutScan => SilentNonEvent]_vars
    /\ [](lastUpdate.registered_new_node =>
            /\ lastUpdate.n \notin DOMAIN ActiveRegistry => lastUpdate.calls = << >>
            /\ lastUpdate.n \in DOMAIN ActiveRegistry =>
                 /\ CallsOfLastUpdate =
                      lastUpdate.nodes_to_check_ICP \cap DOMAIN ActiveRegistry
                 /\ Cardinality(CallsOfLastUpdate) = Len(lastUpdate.calls))

\* An update has detected the new node 3 while no latest scan was held: the
\* node has no scan although node 2 has one.
C23_Witness ==
    /\ lastUpdate.registered_new_node
    /\ lastUpdate.n = 3
    /\ m_last_laser_scan2D = NoScan /\ m_last_laser_scan3D = NoScan
    /\ 2 \in DOMAIN m_nodes_to_laser_scans2D
    /\ 3 \notin DOMAIN m_nodes_to_laser_scans2D
    /\ m_last_total_num_of_nodes = 4

\* An update has skipped a candidate without scan and run ICP on another.
C23_WitnessSkippedCandidate ==
    /\ lastUpdate.registered_new_node
    /\ lastUpdate.calls # << >>
    /\ \E c \in lastUpdate.nodes_to_check_ICP :
          /\ c \notin DOMAIN ActiveRegistry
          /\ \E d \in CallsOfLastUpdate : c < d

(***************************************************************************)
(* The registries on datasets whose scans are distinct objects.            *)
(***************************************************************************)

\* The decider fed scans that can be told apart.
InitBindings ==
    /\ InitERD
    /\ params.ICP_max_distance = 1
    /\ params.LC_min_nodeid_diff = 1
    /\ SimIdle

NextBindings == UpdateDistinctScans \/ AddNode

SpecBindings == InitBindings /\ [][NextBindings]_vars

(***************************************************************************)
(* C24: which nodes acquire a scan.                                        *)
(***************************************************************************)

\* What a step may do to a registry: keep every binding as it is, and add
\* at most the key nodeCount - 1, in an update that detects a new node.
RegistryStep(reg, regNext) ==
    /\ DOMAIN reg \subseteq DOMAIN regNext
    /\ \A k \in DOMAIN reg : regNext[k] = reg[k]
    /\ (DOMAIN regNext) \ (DOMAIN reg) \subseteq { nodeCount - 1 }
    /\ DOMAIN regNext # DOMAIN reg =>
          /\ nodeCount' = nodeCount
          /\ m_last_total_num_of_nodes < nodeCount
    /\ \A k \in 0 .. (m_last_total_num_of_nodes - 1) :
          k \notin DOMAIN reg => k \notin DOMAIN regNext

\* C24: a scan is bound only in an update that detects a new node, under the
\* key nodeCount - 1; a binding is never overwritten or removed; a node that
\* was not bound when it was detected (nodes 0 and 1, and a node passed over
\* because the graph grew by more than one between updates) is never bound;
\* every key is at least 2; and every edge the decider registers starts at a
\* node that has a scan.
C24_ScanBoundOnlyOnDetection ==
    /\ [][/\ RegistryStep(m_nodes_to_laser_scans2D, m_nodes_to_laser_scans2D')
          /\ RegistryStep(m_nodes_to_laser_scans3D, m_nodes_to_laser_scans3D')]_vars
    /\ [](/\ \A k \in DOMAIN m_nodes_to_laser_scans2D \cup DOMAIN m_nodes_to_laser_scans3D :
               k >= LastTotalInit /\ k < m_last_total_num_of_nodes
          /\ \A i \in DOMAIN lastUpdate.edges :
               LET from == lastUpdate.edges[i][1]
               IN  /\ from >= LastTotalInit
                   /\ from \in DOMAIN m_nodes_to_laser_scans2D
                                 \cup DOMAIN m_nodes_to_laser_scans3D)

\* Node 2 was passed over (it has no scan in either registry), node 3 holds
\* the scan s1, and a later update, which detected no node, has brought
\* another scan.
C24_Witness ==
    /\ nodeCount = 4
    /\ m_last_total_num_of_nodes = 4
    /\ 2 \notin DOMAIN m_nodes_to_laser_scans2D \cup DOMAIN m_nodes_to_laser_scans3D
    /\ 3 \in DOMAIN m_nodes_to_laser_scans2D
    /\ m_nodes_to_laser_scans2D[3] = "s1"
    /\ m_last_laser_scan2D = "s2"
    /\ lastUpdate.called /\ ~lastUpdate.registered_new_node

(***************************************************************************)
(* C22: the protocol of the scene lock.                                    *)
(***************************************************************************)

\* The events of the last handler are a sequence of blocks "lock, unlock,
\* repaint", with text messages in between.
RECURSIVE LockedInBlocks(_)
LockedInBlocks(ev) ==
    IF ev = << >>
    THEN TRUE
    ELSE IF Head(ev) = "text"
    THEN LockedInBlocks(Tail(ev))
    ELSE /\ Len(ev) >= 3
         /\ ev[1] = "lock" /\ ev[2] = "unlock" /\ ev[3] = "repaint"
         /\ LockedInBlocks(SubSeq(ev, 4, Len(ev)))

\* C22: in initializeVisuals and updateVisuals every acquisition of the
\* scene lock is followed by its release and a repaint before the next
\* acquisition and before the handler ends, the lock is never acquired while
\* held (no handler ends with the lock held or waits for it), and the lock
\* is never asked of a null display window.
C22_SceneLockProtocol ==
    /\ LockedInBlocks(lastVisuals.events)
    /\ ~scene.locked
    /\ lastVisuals.outcome \in { "none", "returned", "raised" }
    /\ \A i \in DOMAIN lastVisuals.events : lastVisuals.events[i] # "null"

====
